---------------------------- MODULE Spec2Model ----------------------------
(***************************************************************************)
(* Model of the editor panel controller cEditor and of its menu entries    *)
(* cEditor_Menu_Entry (src/tsc/src/core/editor/editor.cpp).                *)
(*                                                                         *)
(* One cEditor object is modelled, as the level editor subclass sets it up *)
(* (master tag "level").  The state is the object's members, the heap of   *)
(* menu entries it allocates, and the toolkit window it loads.  The files  *)
(* it reads (the menu file, the pixmaps directory with the .settings       *)
(* files) are chosen in the initial state and stay fixed in a behaviour.   *)
(*                                                                         *)
(* Spec is the editor driven by the game (Init, Unload, Enable, Disable,   *)
(* Toggle, Update, the hover events); SpecLive adds the frame loop's       *)
(* fairness.  SpecMenu and SpecAdd are the editor with a host that looks   *)
(* menu entries up, and one that adds graphics of its own.                 *)
(*                                                                         *)
(* Numbers: the code computes timer and alpha in float.  The model counts  *)
(* the timer in whole units of speed factor, and stores alpha multiplied   *)
(* by timeout, so that alpha_max - (alpha_max * timer) / timeout is the    *)
(* integer alpha_max - timer with alpha_max == timeout standing for 1.0f.  *)
(***************************************************************************)
EXTENDS Integers, Sequences, FiniteSets, TLC

(***************************************************************************)
(* Bounds of the model.                                                    *)
(***************************************************************************)
\* speedfactor_fps is declared outside the sources shown; the model is
\* parametric in it and is checked with a small value.
speedfactor_fps == 2
\* pFramerate->m_speed_factor ranges over 0 .. MaxSpeedFactor
MaxSpeedFactor == 3
\* number of files Get_Directory_Files returns
MaxAssets == 2
\* number of Init calls in a behaviour
MaxInits == 2
\* number of delete calls on one address the model follows
MaxFrees == 2
\* number of items the host adds to one panel by Try_Add_Editor_Item
MaxItems == 2

\* the NULL window pointer
NULL == [id |-> 0]

(***************************************************************************)
(* Strings.  std::string::find and string_split work on characters; TLC    *)
(* gives Len and SubSeq on strings.                                        *)
(***************************************************************************)
Range(s) == {s[i] : i \in DOMAIN s}

\* std::string::find(needle) != npos
string_find(hay, needle) ==
    \E i \in 1..(Len(hay) - Len(needle) + 1) :
        SubSeq(hay, i, i + Len(needle) - 1) = needle

\* position of the first occurrence of delim in str, 0 if there is none
first_pos(str, delim) ==
    LET hits == {i \in 1..(Len(str) - Len(delim) + 1) :
                    SubSeq(str, i, i + Len(delim) - 1) = delim}
    IN  IF hits = {} THEN 0 ELSE CHOOSE i \in hits : \A j \in hits : i <= j

RECURSIVE string_split(_, _)
string_split(str, delim) ==
    LET pos == first_pos(str, delim)
    IN  IF pos = 0
        THEN <<str>>
        ELSE <<SubSeq(str, 1, pos - 1)>>
             \o string_split(SubSeq(str, pos + Len(delim), Len(str)), delim)

(***************************************************************************)
(* The files the editor reads.                                             *)
(***************************************************************************)
\* m_editor_item_tag as the level editor subclass sets it
m_editor_item_tag == "level"

NoColor == "none"

\* Menu files.  readable = FALSE is a file that is missing or is not
\* well-formed XML: parser.parse_file throws.  A well-formed file may hold
\* no item.
MenuFiles ==
    { [readable |-> TRUE, items |-> << >>],
      [readable |-> TRUE,
       items |-> << [name |-> "Enemies", tags |-> "enemy", color |-> "FFFF0000"],
                    [name |-> "Ground", tags |-> "ground;snow", color |-> "FF00FF00"] >>],
      [readable |-> TRUE,
       items |-> << [name |-> "---Tiles---", tags |-> "header", color |-> NoColor],
                    [name |-> "Ground", tags |-> "ground;snow", color |-> "FF00FF00"] >>],
      [readable |-> FALSE, items |-> << >>] }

NoSettings == [exists |-> FALSE, malformed |-> FALSE, m_name |-> "", m_editor_tags |-> ""]

\* a .settings file with the given contents
Settings(name, tags) ==
    [exists |-> TRUE, malformed |-> FALSE, m_name |-> name, m_editor_tags |-> tags]

\* a .settings file that cannot be parsed
Malformed == [exists |-> TRUE, malformed |-> TRUE, m_name |-> "", m_editor_tags |-> ""]

\* The .png files of the pixmaps directory, in the order the directory
\* yields them.
Directory ==
    <<"ground/ice.png", "bad.png", "boss.png", "map.png", "sub.png", "sign.png", "raw.png">>

Pixmaps == Range(Directory)

SettingsOf(path) ==
    CASE path = "ground/ice.png" -> Settings("Ice", "level;snow;ground")
      [] path = "boss.png"  -> Settings("Boss", "level;enemy;ground")
      [] path = "map.png"   -> Settings("Map", "world;enemy")
      [] path = "sub.png"   -> Settings("Sub", "sublevel;enemy")
      [] path = "sign.png"  -> Settings("Sign", "level;header")
      [] path = "bad.png"   -> Malformed
      [] OTHER              -> NoSettings

\* cImage_Settings_Parser::Get: the parsed data, or the error of a file
\* that is malformed
cImage_Settings_Parser_Get(path) ==
    IF SettingsOf(path).malformed
    THEN [threw |-> TRUE, data |-> NoSettings]
    ELSE [threw |-> FALSE, data |-> SettingsOf(path)]

\* Get_Directory_Files: the directory holds at most MaxAssets of the files
Listings ==
    { [k \in 1..Cardinality(S) |->
          Directory[CHOOSE i \in S : Cardinality({j \in S : j < i}) = k - 1]] :
      S \in {T \in SUBSET DOMAIN Directory : Cardinality(T) <= MaxAssets} }

(***************************************************************************)
(* Timer and alpha.                                                        *)
(***************************************************************************)
\* float timeout = speedfactor_fps * 2
timeout == speedfactor_fps * 2
\* float alpha_max = 1.0f, in units of 1/timeout
alpha_max == timeout

\* X positions of the panel: the layout's, and CEGUI::UDim(-0.19f, 0.0f)
LayoutX == "layout"
RestX == "-0.19"

(***************************************************************************)
(* State.                                                                  *)
(***************************************************************************)
VARIABLES
    menu_file,            \* contents of m_menu_filename
    image_files,          \* what Get_Directory_Files returns
    alive,                \* the object is constructed and not destroyed
    crashed,              \* the process has stopped on undefined behaviour
    init_result,          \* how the last Init call ended
    inits,                \* number of Init calls
    mp_editor_tabpane,    \* NULL or the window loaded from editor.layout
    destroyed,            \* per window id, the number of destroyWindow calls
    m_target_x_position,
    m_enabled,
    m_rested,
    m_visibility_timer,
    m_mouse_inside,
    m_menu_entries,       \* vector of addresses of cEditor_Menu_Entry
    heap,                 \* address -> the cEditor_Menu_Entry stored there
    frees,                \* address -> number of delete calls on it
    cursor_active,        \* pMouseCursor's active flag
    last_sound,           \* the last file given to pAudio->Play_Sound
    last_result           \* how the host's last call of Try_Add_Editor_Item
                          \* or get_menu_entry ended

vars == <<menu_file, image_files, alive, crashed, init_result, inits,
          mp_editor_tabpane, destroyed, m_target_x_position, m_enabled,
          m_rested, m_visibility_timer, m_mouse_inside, m_menu_entries,
          heap, frees, cursor_active, last_sound, last_result>>

env == <<menu_file, image_files>>
timer_vars == <<m_enabled, m_rested, m_visibility_timer, m_mouse_inside>>
entry_vars == <<m_menu_entries, heap, frees>>
host_vars == <<cursor_active, last_sound>>

\* length of the longest menu file
MaxMenuLen == 2
Addresses == 1..(MaxInits * MaxMenuLen)
Unallocated == [allocated |-> FALSE]

\* no call was made yet
NoResult == [op |-> "none", arg |-> "", threw |-> FALSE, ret |-> FALSE, entry |-> 0]

\* cEditor::cEditor
Init ==
    /\ menu_file \in MenuFiles
    /\ image_files \in Listings
    /\ alive = TRUE
    /\ crashed = FALSE
    /\ init_result = "not called"
    /\ inits = 0
    /\ mp_editor_tabpane = NULL
    /\ destroyed = [w \in 1..MaxInits |-> 0]
    /\ m_target_x_position = "uninitialized"
    /\ m_enabled = FALSE
    /\ m_rested = FALSE
    /\ m_visibility_timer = 0
    /\ m_mouse_inside = FALSE
    /\ m_menu_entries = << >>
    /\ heap = [a \in Addresses |-> Unallocated]
    /\ frees = [a \in Addresses |-> 0]
    /\ cursor_active = FALSE
    /\ last_sound = "none"
    /\ last_result = NoResult

Running == alive /\ ~crashed

(***************************************************************************)
(* cEditor_Menu_Entry                                                      *)
(***************************************************************************)
labelheight == 24
imageheight == 48
yskip == 24

RECURSIVE string_replace_all(_, _, _)
string_replace_all(str, from, to) ==
    IF str = "" THEN ""
    ELSE (IF SubSeq(str, 1, 1) = from THEN to ELSE SubSeq(str, 1, 1))
         \o string_replace_all(SubSeq(str, 2, Len(str)), from, to)

\* cEditor_Menu_Entry::cEditor_Menu_Entry, with the setters parse_menu_file calls
new_entry(item) ==
    LET tags == string_split(item.tags, ";")
    IN  [allocated |-> TRUE,
         m_name |-> item.name,
         m_color |-> IF item.color = NoColor THEN "FFFFFFFF" ELSE item.color,
         m_required_tags |-> tags,
         m_header |-> ("header" \in Range(tags)),
         m_element_y |-> 0,
         items |-> << >>]

\* Add_Image_Item advancing by the label and the image only, without yskip
Add_Image_Item_no_yskip(entry, pixmap_path, settings) ==
    LET escaped_path == string_replace_all(pixmap_path, "/", "+")
    IN  [entry EXCEPT
            !.items = Append(@, [pixmap |-> pixmap_path,
                                 label |-> settings.m_name,
                                 image |-> escaped_path,
                                 label_y |-> entry.m_element_y,
                                 image_y |-> entry.m_element_y + labelheight]),
            !.m_element_y = @ + labelheight + imageheight]

\* cEditor_Menu_Entry::Add_Image_Item
Add_Image_Item(entry, pixmap_path, settings) ==
    LET escaped_path == string_replace_all(pixmap_path, "/", "+")
    IN  [entry EXCEPT
            !.items = Append(@, [pixmap |-> pixmap_path,
                                 label |-> settings.m_name,
                                 image |-> escaped_path,
                                 label_y |-> entry.m_element_y,
                                 image_y |-> entry.m_element_y + labelheight]),
            !.m_element_y = @ + labelheight + imageheight + yskip]

(***************************************************************************)
(* Menu population                                                         *)
(***************************************************************************)
\* tag_loop without the std::find over results
RECURSIVE tag_loop_no_dedupe(_, _, _, _)
tag_loop_no_dedupe(results, p_menu_entry, tags, requested_tags) ==
    IF tags = << >> THEN results
    ELSE LET next ==
                 IF Head(tags) \in Range(requested_tags)
                 THEN Append(results, p_menu_entry)
                 ELSE results
         IN  tag_loop_no_dedupe(next, p_menu_entry, Tail(tags), requested_tags)

\* the inner loop of find_target_menu_entries_for over one entry's tags
RECURSIVE tag_loop(_, _, _, _)
tag_loop(results, p_menu_entry, tags, requested_tags) ==
    IF tags = << >> THEN results
    ELSE LET next ==
                 IF /\ Head(tags) \in Range(requested_tags)
                    /\ p_menu_entry \notin Range(results)
                 THEN Append(results, p_menu_entry)
                 ELSE results
         IN  tag_loop(next, p_menu_entry, Tail(tags), requested_tags)

\* the outer loop of find_target_menu_entries_for over m_menu_entries
RECURSIVE entry_loop(_, _, _, _)
entry_loop(results, h, entries, requested_tags) ==
    IF entries = << >> THEN results
    ELSE entry_loop(tag_loop(results, Head(entries),
                             h[Head(entries)].m_required_tags, requested_tags),
                    h, Tail(entries), requested_tags)

\* cEditor::find_target_menu_entries_for
find_target_menu_entries_for(h, entries, settings) ==
    entry_loop(<< >>, h, entries, string_split(settings.m_editor_tags, ";"))

\* the loop of Try_Add_Editor_Item over the target menu entries
RECURSIVE add_loop(_, _, _, _)
add_loop(h, targets, string_path, settings) ==
    IF targets = << >> THEN h
    ELSE add_loop([h EXCEPT ![Head(targets)] = Add_Image_Item(@, string_path, settings)],
                  Tail(targets), string_path, settings)

\* cEditor::Try_Add_Editor_Item: the heap after the call, the value returned,
\* and whether the call ended by the parser's exception (nothing catches it)
Try_Add_Editor_Item(h, entries, pixmap_path) ==
    IF ~SettingsOf(pixmap_path).exists
    THEN [heap |-> h, ret |-> FALSE, threw |-> FALSE]
    ELSE LET parsed == cImage_Settings_Parser_Get(pixmap_path)
             p_settings == parsed.data
         IN  IF parsed.threw
             THEN [heap |-> h, ret |-> FALSE, threw |-> TRUE]
             ELSE IF ~string_find(p_settings.m_editor_tags, m_editor_item_tag)
             THEN [heap |-> h, ret |-> FALSE, threw |-> FALSE]
             ELSE [heap |-> add_loop(h, find_target_menu_entries_for(h, entries, p_settings),
                                     pixmap_path, p_settings),
                   ret |-> TRUE, threw |-> FALSE]

\* cEditor::load_image_items: the heap after the loop, and whether a call of
\* Try_Add_Editor_Item threw out of it
RECURSIVE load_image_items(_, _, _)
load_image_items(h, entries, files) ==
    IF files = << >> THEN [heap |-> h, threw |-> FALSE]
    ELSE LET added == Try_Add_Editor_Item(h, entries, Head(files))
         IN  IF added.threw
             THEN [heap |-> added.heap, threw |-> TRUE]
             ELSE load_image_items(added.heap, entries, Tail(files))

\* cEditor::parse_menu_file: the entries allocated for the items, at fresh addresses
parsed_heap(h, first, items) ==
    [a \in Addresses |->
        IF a >= first /\ a < first + Len(items) THEN new_entry(items[a - first + 1]) ELSE h[a]]

parsed_entries(entries, first, items) ==
    entries \o [i \in 1..Len(items) |-> first + i - 1]

\* cEditor::populate_menu: the text items added to the listbox
populate_menu(h, entries) ==
    [i \in 1..Len(entries) |-> [text |-> h[entries[i]].m_name, colour |-> h[entries[i]].m_color]]

next_address == Cardinality({a \in Addresses : heap[a].allocated}) + 1

\* a pointer of m_menu_entries that was deleted
Dangling == {i \in DOMAIN m_menu_entries : frees[m_menu_entries[i]] > 0}

(***************************************************************************)
(* cEditor                                                                 *)
(***************************************************************************)
\* loadLayoutFromFile("editor.layout"), hide(), addChild
loaded_pane(id) ==
    [id |-> id, visible |-> FALSE, alpha |-> alpha_max, x |-> LayoutX,
     attached |-> TRUE, subscribed |-> FALSE, listbox |-> << >>]

\* cEditor::Init.  The host calls it on an editor that holds no panel.
\* A menu file that cannot be parsed makes parse_menu_file throw out of Init;
\* a settings file that cannot be parsed makes load_image_items throw out of
\* Init, after populate_menu and before the handlers are subscribed.
\* Reading a deleted entry left in m_menu_entries is undefined: the process
\* stops there, or goes on with what the memory still holds.
EditorInit ==
    /\ Running
    /\ mp_editor_tabpane = NULL
    /\ inits < MaxInits
    /\ inits' = inits + 1
    /\ m_target_x_position' = LayoutX
    /\ UNCHANGED <<env, last_result, alive, destroyed, timer_vars, frees, host_vars>>
    /\ IF ~menu_file.readable
       THEN /\ mp_editor_tabpane' = loaded_pane(inits + 1)
            /\ init_result' = "threw"
            /\ UNCHANGED <<crashed, m_menu_entries, heap>>
       ELSE LET entries == parsed_entries(m_menu_entries, next_address, menu_file.items)
                h1 == parsed_heap(heap, next_address, menu_file.items)
            IN  /\ m_menu_entries' = entries
                /\ \/ /\ Dangling # {}
                      /\ crashed' = TRUE
                      /\ heap' = h1
                      /\ mp_editor_tabpane' = loaded_pane(inits + 1)
                      /\ init_result' = "crashed"
                   \/ LET loaded == load_image_items(h1, entries, image_files)
                      IN  /\ crashed' = FALSE
                          /\ heap' = loaded.heap
                          /\ mp_editor_tabpane' =
                                [loaded_pane(inits + 1) EXCEPT
                                    !.listbox = populate_menu(h1, entries),
                                    !.subscribed = ~loaded.threw]
                          /\ init_result' = IF loaded.threw THEN "threw" ELSE "ok"

\* the deletes of Unload over m_menu_entries
RECURSIVE delete_loop(_, _)
delete_loop(f, entries) ==
    IF entries = << >> THEN f
    ELSE delete_loop([f EXCEPT ![Head(entries)] = @ + 1], Tail(entries))

\* cEditor::Unload.  Deleting a pointer twice is undefined: the process stops
\* or goes on.
UnloadBody ==
    /\ \A a \in Addresses : frees[a] < MaxFrees
    /\ frees' = delete_loop(frees, m_menu_entries)
    /\ \/ crashed' = FALSE
       \/ Dangling # {} /\ crashed' = TRUE
    /\ IF mp_editor_tabpane # NULL
       THEN /\ destroyed' = [destroyed EXCEPT ![mp_editor_tabpane.id] = @ + 1]
            /\ mp_editor_tabpane' = NULL
       ELSE UNCHANGED <<destroyed, mp_editor_tabpane>>
    /\ UNCHANGED <<env, last_result, inits, m_target_x_position, timer_vars, m_menu_entries,
                   heap, host_vars>>

Unload ==
    /\ Running
    /\ UnloadBody
    /\ init_result' = "unloaded"
    /\ UNCHANGED alive

\* cEditor::~cEditor
Destructor ==
    /\ Running
    /\ UnloadBody
    /\ alive' = FALSE
    /\ UNCHANGED init_result

\* cEditor::Enable.  Calling show() through a NULL panel is undefined: the
\* process stops, or goes on without the panel.
EnableBody ==
    IF m_enabled
    THEN UNCHANGED vars
    ELSE /\ last_sound' = "editor/enter.ogg"
         /\ cursor_active' = TRUE
         /\ UNCHANGED <<env, last_result, alive, init_result, inits, destroyed, m_target_x_position,
                        m_rested, m_visibility_timer, m_mouse_inside, entry_vars>>
         /\ IF mp_editor_tabpane = NULL
            THEN /\ crashed' \in BOOLEAN
                 /\ m_enabled' = ~crashed'
                 /\ UNCHANGED mp_editor_tabpane
            ELSE /\ mp_editor_tabpane' = [mp_editor_tabpane EXCEPT !.visible = TRUE]
                 /\ m_enabled' = TRUE
                 /\ UNCHANGED crashed

\* cEditor::Disable
DisableBody ==
    IF ~m_enabled
    THEN UNCHANGED vars
    ELSE /\ last_sound' = "editor/leave.ogg"
         /\ cursor_active' = FALSE
         /\ UNCHANGED <<env, last_result, alive, init_result, inits, destroyed, m_target_x_position,
                        m_rested, m_visibility_timer, m_mouse_inside, entry_vars>>
         /\ IF mp_editor_tabpane = NULL
            THEN /\ crashed' \in BOOLEAN
                 /\ m_enabled' = crashed'
                 /\ UNCHANGED mp_editor_tabpane
            ELSE /\ mp_editor_tabpane' = [mp_editor_tabpane EXCEPT !.visible = FALSE]
                 /\ m_enabled' = FALSE
                 /\ UNCHANGED crashed

Enable == Running /\ EnableBody

Disable == Running /\ DisableBody

\* cEditor::Toggle
Toggle ==
    /\ Running
    /\ IF m_enabled THEN DisableBody ELSE EnableBody

\* update_idle without the test of m_rested
update_idle_ignoring_rested == ~m_enabled \/ m_mouse_inside

\* faded_alpha rising with the timer
faded_alpha_rising(timer) == (alpha_max * timer) \div timeout

\* the conditions under which Update returns without touching the panel
update_idle == ~m_enabled \/ m_mouse_inside \/ m_rested

\* the argument of setAlpha while fading
faded_alpha(timer) == alpha_max - (alpha_max * timer) \div timeout

\* cEditor::Update, with pFramerate->m_speed_factor = speed_factor
Update(speed_factor) ==
    /\ Running
    /\ UNCHANGED <<env, last_result, alive, init_result, inits, destroyed, m_target_x_position,
                   m_enabled, m_mouse_inside, entry_vars, host_vars>>
    /\ IF update_idle
       THEN UNCHANGED <<crashed, mp_editor_tabpane, m_rested, m_visibility_timer>>
       ELSE IF mp_editor_tabpane = NULL
       THEN /\ crashed' \in BOOLEAN
            /\ UNCHANGED mp_editor_tabpane
            /\ IF crashed'
               THEN UNCHANGED <<m_rested, m_visibility_timer>>
               ELSE IF m_visibility_timer >= timeout
               THEN m_rested' = TRUE /\ m_visibility_timer' = 0
               ELSE m_visibility_timer' = m_visibility_timer + speed_factor
                    /\ UNCHANGED m_rested
       ELSE /\ UNCHANGED crashed
            /\ IF m_visibility_timer >= timeout
               THEN /\ mp_editor_tabpane' =
                        [mp_editor_tabpane EXCEPT !.x = RestX, !.alpha = alpha_max]
                    /\ m_rested' = TRUE
                    /\ m_visibility_timer' = 0
               ELSE /\ m_visibility_timer' = m_visibility_timer + speed_factor
                    /\ mp_editor_tabpane' =
                        [mp_editor_tabpane EXCEPT !.alpha = faded_alpha(m_visibility_timer')]
                    /\ UNCHANGED m_rested

\* The toolkit raises the hover events of a live window the editor subscribed to.
Hoverable == mp_editor_tabpane # NULL /\ mp_editor_tabpane.subscribed

\* on_mouse_enter without the resets of the timer and of the position
on_mouse_enter_without_resets ==
    /\ Running
    /\ Hoverable
    /\ m_mouse_inside' = TRUE
    /\ m_rested' = FALSE
    /\ mp_editor_tabpane' = [mp_editor_tabpane EXCEPT !.alpha = alpha_max]
    /\ UNCHANGED <<env, last_result, alive, crashed, init_result, inits, destroyed, m_visibility_timer,
                   m_target_x_position, m_enabled, entry_vars, host_vars>>

\* cEditor::on_mouse_enter
on_mouse_enter ==
    /\ Running
    /\ Hoverable
    /\ m_mouse_inside' = TRUE
    /\ m_visibility_timer' = 0
    /\ m_rested' = FALSE
    /\ mp_editor_tabpane' =
          [mp_editor_tabpane EXCEPT !.alpha = alpha_max, !.x = m_target_x_position]
    /\ UNCHANGED <<env, last_result, alive, crashed, init_result, inits, destroyed,
                   m_target_x_position, m_enabled, entry_vars, host_vars>>

\* cEditor::on_mouse_leave
on_mouse_leave ==
    /\ Running
    /\ Hoverable
    /\ m_mouse_inside' = FALSE
    /\ UNCHANGED <<env, last_result, alive, crashed, init_result, inits, mp_editor_tabpane, destroyed,
                   m_target_x_position, m_enabled, m_rested, m_visibility_timer,
                   entry_vars, host_vars>>

\* get_menu_entry returning NULL where the code throws
RECURSIVE get_menu_entry_returning_null(_, _, _)
get_menu_entry_returning_null(h, entries, name) ==
    IF entries = << >> THEN [threw |-> FALSE, entry |-> 0]
    ELSE IF h[Head(entries)].m_name = name
    THEN [threw |-> FALSE, entry |-> Head(entries)]
    ELSE get_menu_entry_returning_null(h, Tail(entries), name)

\* cEditor::get_menu_entry: the entry returned, or the std::runtime_error
RECURSIVE get_menu_entry(_, _, _)
get_menu_entry(h, entries, name) ==
    IF entries = << >> THEN [threw |-> TRUE, entry |-> 0]
    ELSE IF h[Head(entries)].m_name = name
    THEN [threw |-> FALSE, entry |-> Head(entries)]
    ELSE get_menu_entry(h, Tail(entries), name)

\* the names the host looks up
LookupNames == {"Enemies", "Ground", "---Tiles---", "Water"}

\* A call of get_menu_entry by the host.  Reading the name of a deleted
\* entry is undefined: the process stops, or goes on with what the memory
\* still holds.
GetMenuEntry(name) ==
    /\ Running
    /\ \/ crashed' = FALSE
       \/ Dangling # {} /\ crashed' = TRUE
    /\ IF crashed'
       THEN UNCHANGED last_result
       ELSE LET found == get_menu_entry(heap, m_menu_entries, name)
            IN  last_result' = [op |-> "get_menu_entry", arg |-> name,
                                threw |-> found.threw, ret |-> FALSE,
                                entry |-> found.entry]
    /\ UNCHANGED <<env, alive, init_result, inits, mp_editor_tabpane, destroyed,
                   m_target_x_position, timer_vars, entry_vars, host_vars>>

\* A call of Try_Add_Editor_Item by the host.  Reading the tags of a deleted
\* entry is undefined: the process stops, or goes on with what the memory
\* still holds.
TryAdd(pixmap_path) ==
    /\ Running
    /\ \A a \in Addresses : heap[a].allocated => Len(heap[a].items) < MaxItems
    /\ \/ crashed' = FALSE
       \/ Dangling # {} /\ crashed' = TRUE
    /\ IF crashed'
       THEN UNCHANGED <<heap, last_result>>
       ELSE LET added == Try_Add_Editor_Item(heap, m_menu_entries, pixmap_path)
            IN  /\ heap' = added.heap
                /\ last_result' = [op |-> "Try_Add_Editor_Item", arg |-> pixmap_path,
                                   threw |-> added.threw, ret |-> added.ret,
                                   entry |-> 0]
    /\ UNCHANGED <<env, alive, init_result, inits, mp_editor_tabpane, destroyed,
                   m_target_x_position, timer_vars, m_menu_entries, frees, host_vars>>

Next ==
    \/ EditorInit
    \/ Unload
    \/ Destructor
    \/ Enable
    \/ Disable
    \/ Toggle
    \/ \E speed_factor \in 0..MaxSpeedFactor : Update(speed_factor)
    \/ on_mouse_enter
    \/ on_mouse_leave

Spec == Init /\ [][Next]_vars

\* The host's frame loop calls Update once per frame for as long as the
\* process runs, and a frame that takes time has a positive speed factor.
PositiveUpdate == \E speed_factor \in 1..MaxSpeedFactor : Update(speed_factor)

SpecLive == Init /\ [][Next]_vars /\ WF_vars(PositiveUpdate)

\* The host loads and unloads the editor and looks menu entries up.
NextMenu ==
    \/ EditorInit
    \/ Unload
    \/ \E name \in LookupNames : GetMenuEntry(name)

SpecMenu == Init /\ [][NextMenu]_vars

\* The host loads and unloads the editor and adds graphics of its own.
NextAdd ==
    \/ EditorInit
    \/ Unload
    \/ \E pixmap_path \in Pixmaps : TryAdd(pixmap_path)

SpecAdd == Init /\ [][NextAdd]_vars

(***************************************************************************)
(* Properties                                                              *)
(***************************************************************************)
PaneLoaded == mp_editor_tabpane # NULL

\* the tags of a pixmap's settings, as a set
TagsOf(path) == Range(string_split(SettingsOf(path).m_editor_tags, ";"))

\* how many items of the entry at address a show the pixmap
Placements(a, path) ==
    Cardinality({k \in DOMAIN heap[a].items : heap[a].items[k].pixmap = path})

\* an entry that was allocated and not deleted
Live(a) == heap[a].allocated /\ frees[a] = 0

\* the entry's required tags and the pixmap's tags share a tag
SharesTag(a, path) == Range(heap[a].m_required_tags) \cap TagsOf(path) # {}

\* the panel fades: enabled, pointer outside, not rested
Fading == PaneLoaded /\ m_enabled /\ ~m_mouse_inside /\ ~m_rested

UpdateStep == \E speed_factor \in 0..MaxSpeedFactor : Update(speed_factor)

\* C1: after the scan of the first Init, a pixmap with a settings file is in
\* an entry's panel iff the entry's required tags and the pixmap's tags share
\* a tag, the pixmap carries the master tag, and the entry is no header.
C1_PlacedIffTagsMatch ==
    (init_result = "ok" /\ inits = 1) =>
        \A i \in DOMAIN m_menu_entries : \A path \in Range(image_files) :
            LET a == m_menu_entries[i]
            IN  SettingsOf(path).exists =>
                  (Placements(a, path) > 0 <=>
                      /\ SharesTag(a, path)
                      /\ m_editor_item_tag \in TagsOf(path)
                      /\ ~heap[a].m_header)

\* C2: after a scan, a pixmap that carries the master tag is in the panel of
\* every menu entry whose required tags share a tag with it, exactly once,
\* however many tags they share.
C2_EachMatchingPanelOnce ==
    init_result = "ok" =>
        \A i \in DOMAIN m_menu_entries : \A path \in Range(image_files) :
            LET a == m_menu_entries[i]
            IN  (/\ Live(a)
                 /\ SettingsOf(path).exists
                 /\ m_editor_item_tag \in TagsOf(path)
                 /\ SharesTag(a, path))
                => Placements(a, path) = 1

\* a pixmap placed into two entries, into one of them through two shared tags
C2_Witness ==
    /\ init_result = "ok"
    /\ \E i, j \in DOMAIN m_menu_entries : \E path \in Range(image_files) :
          /\ i # j
          /\ Live(m_menu_entries[i]) /\ Live(m_menu_entries[j])
          /\ Placements(m_menu_entries[i], path) = 1
          /\ Placements(m_menu_entries[j], path) = 1
    /\ \E i \in DOMAIN m_menu_entries : \E path \in Range(image_files) :
          /\ Live(m_menu_entries[i])
          /\ Cardinality(Range(heap[m_menu_entries[i]].m_required_tags) \cap TagsOf(path)) >= 2
          /\ Placements(m_menu_entries[i], path) = 1

\* C3: the panel of a header entry holds no item.
C3_HeaderPanelsEmpty ==
    \A a \in Addresses :
        (heap[a].allocated /\ heap[a].m_header) => heap[a].items = << >>

\* C4: whatever the calls of Unload, Init and the destructor, no entry is
\* deleted twice and no window destroyed twice, and after Unload every entry
\* is deleted once and the panel is gone.
C4_UnloadFreesOnce ==
    /\ \A a \in Addresses : frees[a] <= 1
    /\ \A w \in DOMAIN destroyed : destroyed[w] <= 1
    /\ init_result = "unloaded" =>
          /\ \A a \in Addresses : heap[a].allocated => frees[a] = 1
          /\ ~PaneLoaded

\* C5: after a successful Init, the Update call in which the timer reaches
\* exactly timeout leaves the panel rested: m_rested set, alpha 1.0, X at the
\* rest offset, timer 0.
C5_RestedInSameUpdate ==
    [][\A speed_factor \in 0..MaxSpeedFactor :
          (/\ init_result = "ok"
           /\ Fading
           /\ m_visibility_timer < timeout
           /\ m_visibility_timer + speed_factor = timeout
           /\ Update(speed_factor))
          => /\ m_rested'
             /\ mp_editor_tabpane'.alpha = alpha_max
             /\ mp_editor_tabpane'.x = RestX
             /\ m_visibility_timer' = 0]_vars

\* C6: an Update call that starts and ends with the panel fading does not
\* raise alpha, and on_mouse_enter sets alpha to 1.0.
C6_FadeMonotone ==
    /\ [][(Fading /\ Fading' /\ UpdateStep)
            => mp_editor_tabpane'.alpha <= mp_editor_tabpane.alpha]_vars
    /\ [][on_mouse_enter => mp_editor_tabpane'.alpha = alpha_max]_vars

\* the panel has faded below 1.0 and is still fading
C6_Witness == Fading /\ m_visibility_timer > 0 /\ mp_editor_tabpane.alpha < alpha_max

\* C7: while m_rested is set, Update, on_mouse_leave, Enable, Disable and
\* Toggle leave m_rested set and the panel's alpha as it is.
C7_RestedIsStable ==
    [][(m_rested /\ (UpdateStep \/ on_mouse_leave \/ Enable \/ Disable \/ Toggle))
         => /\ m_rested'
            /\ PaneLoaded <=> PaneLoaded'
            /\ PaneLoaded => mp_editor_tabpane'.alpha = mp_editor_tabpane.alpha]_vars

\* the editor was disabled while rested, and is still rested
C7_Witness ==
    /\ PaneLoaded /\ m_rested /\ ~m_enabled
    /\ last_sound = "editor/leave.ogg"
    /\ mp_editor_tabpane.x = RestX
    /\ mp_editor_tabpane.alpha = alpha_max

\* C8: after a successful Init, the alpha given to the panel lies in [0, 1].
C8_AlphaInRange ==
    (init_result = "ok" /\ PaneLoaded) =>
        (0 <= mp_editor_tabpane.alpha /\ mp_editor_tabpane.alpha <= alpha_max)

\* C9: after a successful Init, Enable on a disabled editor leaves the panel
\* shown, at alpha 1.0 and at the layout's X position.
C9_EnableShowsUnfaded ==
    [][(init_result = "ok" /\ PaneLoaded /\ ~m_enabled /\ Enable)
         => /\ mp_editor_tabpane'.visible
            /\ mp_editor_tabpane'.alpha = alpha_max
            /\ mp_editor_tabpane'.x = LayoutX]_vars

\* C10: after an Init that threw, no panel is shown and the editor is not
\* enabled.
C10_FailedInitIsInert ==
    init_result = "threw" =>
        /\ ~m_enabled
        /\ PaneLoaded => ~mp_editor_tabpane.visible

\* C11: while no layout is loaded, a call of Enable or Update is neither a
\* silent no-op (a return that changes nothing) nor a call that goes on past
\* the missing panel with the editor enabled.
C11_NotLoadedIsSignalled ==
    (Running /\ ~PaneLoaded) =>
        /\ ~ENABLED (UpdateStep /\ UNCHANGED vars)
        /\ ~ENABLED (Enable /\ UNCHANGED vars)
        /\ ~ENABLED (Enable /\ ~crashed' /\ m_enabled' /\ ~m_enabled)
        /\ ~ENABLED (UpdateStep /\ ~crashed' /\ m_visibility_timer' # m_visibility_timer)
\* the offsets of C13 in one state
C13_OffsetIsItemsTimes96 ==
    /\ \A a \in Addresses : heap[a].allocated =>
          /\ heap[a].m_element_y = Len(heap[a].items) * 96
          /\ \A k \in DOMAIN heap[a].items :
                /\ heap[a].items[k].label_y = (k - 1) * 96
                /\ heap[a].items[k].image_y = (k - 1) * 96 + 24
    /\ labelheight + imageheight + yskip = 96

\* no step lowers the offset of an entry
C13_OffsetNeverDecreases ==
    [][\A a \in Addresses :
          (heap[a].allocated /\ heap'[a].allocated) =>
              heap'[a].m_element_y >= heap[a].m_element_y]_vars

\* C13: an entry that received k items has its running offset at k * 96, the
\* i-th item (0-based) has its label at i * 96 and its image at i * 96 + 24,
\* the offset of a new entry is 0, and no step lowers the offset of an entry.
C13_RunningOffset == []C13_OffsetIsItemsTimes96 /\ C13_OffsetNeverDecreases

\* an entry that holds two items, the second one a row below the first
C13_Witness ==
    \E a \in Addresses :
        /\ heap[a].allocated
        /\ Len(heap[a].items) = 2
        /\ heap[a].m_element_y = 192
        /\ heap[a].items[2].label_y = 96

\* the names the menu file declares, in file order
DeclaredNames == [i \in DOMAIN menu_file.items |-> menu_file.items[i].name]

\* the position of a value in a sequence without repetitions
PosIn(seq, x) == CHOOSE i \in DOMAIN seq : seq[i] = x

\* a sequence of values of seq, in the order of seq
InOrderOf(sub, seq) ==
    \A i, j \in DOMAIN sub : i < j => PosIn(seq, sub[i]) < PosIn(seq, sub[j])

\* the entries and the listbox items are the declared ones, in file order
C14_MenuInFileOrder ==
    /\ [i \in DOMAIN m_menu_entries |-> heap[m_menu_entries[i]].m_name] = DeclaredNames
    /\ [i \in DOMAIN mp_editor_tabpane.listbox |-> mp_editor_tabpane.listbox[i].text]
          = DeclaredNames

\* find_target_menu_entries_for returns entries in the order of m_menu_entries
C14_TargetsInMenuOrder ==
    \A path \in Pixmaps :
        InOrderOf(find_target_menu_entries_for(heap, m_menu_entries, SettingsOf(path)),
                  m_menu_entries)

\* the items of a panel are in the order of the scan
C14_ItemsInScanOrder ==
    \A a \in Addresses : Live(a) =>
        InOrderOf([k \in DOMAIN heap[a].items |-> heap[a].items[k].pixmap], image_files)

\* C14: after a successful Init the menu entries and the listbox items are
\* the menu file's items in declaration order, find_target_menu_entries_for
\* returns entries in that order, and the items of each panel are in scan order.
C14_OrderPreserved ==
    (init_result = "ok" /\ PaneLoaded) =>
        /\ C14_MenuInFileOrder
        /\ C14_TargetsInMenuOrder
        /\ C14_ItemsInScanOrder

\* the active state of C18 in one state
C18_ActiveState ==
    (PaneLoaded /\ m_mouse_inside) =>
        /\ ~m_rested
        /\ m_visibility_timer = 0
        /\ mp_editor_tabpane.alpha = alpha_max
        /\ mp_editor_tabpane.x = LayoutX

\* C18: whenever a panel is loaded and the pointer is recorded as inside it,
\* rested is false, the leave timer is 0, alpha is 1.0 and the X position is
\* the layout's; an Update made while the pointer is inside changes nothing.
C18_InsideIsActive ==
    /\ []C18_ActiveState
    /\ [][(m_mouse_inside /\ UpdateStep) => UNCHANGED vars]_vars

\* the pointer is inside the shown panel of an enabled editor
C18_Witness ==
    /\ PaneLoaded
    /\ m_mouse_inside
    /\ m_enabled
    /\ mp_editor_tabpane.visible
    /\ last_sound = "editor/enter.ogg"

\* the resting state of C19 in one state
C19_RestingState ==
    (init_result = "ok" /\ PaneLoaded /\ m_rested) =>
        /\ ~m_mouse_inside
        /\ m_visibility_timer = 0
        /\ mp_editor_tabpane.alpha = alpha_max
        /\ mp_editor_tabpane.x = RestX

\* C19: whenever the panel of a successful Init is loaded and rested is true,
\* the pointer is recorded as outside, the leave timer is 0, alpha is 1.0 and
\* the panel is at the offscreen X; rested is set only by an Update made
\* while enabled with the pointer outside.
C19_RestedIsParked ==
    /\ []C19_RestingState
    /\ [][(~m_rested /\ m_rested') => (UpdateStep /\ m_enabled /\ ~m_mouse_inside)]_vars

\* a panel loaded by a successful Init
Usable == init_result = "ok" /\ PaneLoaded

\* the panel is shown iff the editor is enabled
C20_ShownIffEnabled == Usable => (mp_editor_tabpane.visible <=> m_enabled)

\* Enable on an enabled editor and Disable on a disabled one change nothing,
\* Toggle flips the flag, Update on a disabled editor changes nothing
C20_Steps ==
    /\ [][(Usable /\ m_enabled /\ Enable) => UNCHANGED vars]_vars
    /\ [][(Usable /\ ~m_enabled /\ Disable) => UNCHANGED vars]_vars
    /\ [][(Usable /\ Toggle) => m_enabled' = ~m_enabled]_vars
    /\ [][(Usable /\ ~m_enabled /\ UpdateStep) =>
             UNCHANGED <<m_visibility_timer, m_rested, mp_editor_tabpane>>]_vars

\* C20: after a successful Init the panel is shown iff m_enabled is true;
\* Enable on an enabled editor and Disable on a disabled editor change
\* nothing, each Toggle flips m_enabled, and Update on a disabled editor
\* leaves the timer, alpha, rested and the X position unchanged.
C20_EnabledMeansShown == []C20_ShownIffEnabled /\ C20_Steps

\* the editor is enabled on a loaded panel with the pointer outside
EnabledOutside == Running /\ PaneLoaded /\ m_enabled /\ ~m_mouse_inside

\* the panel rests offscreen at full alpha
Parked ==
    /\ PaneLoaded
    /\ m_rested
    /\ mp_editor_tabpane.x = RestX
    /\ mp_editor_tabpane.alpha = alpha_max

\* C17: with Update called again and again with a positive speed factor, an
\* enabled editor whose pointer is outside the panel gets rested and parked
\* offscreen at alpha 1.0 (unless it is disabled, unloaded or entered before),
\* and m_rested stays true in every step that is no pointer-enter.
C17_EventuallyParked ==
    /\ EnabledOutside ~> (Parked \/ ~EnabledOutside)
    /\ [][(m_rested /\ ~on_mouse_enter) => m_rested']_vars

\* the listing without the files whose settings cannot be parsed
RECURSIVE Parsable(_)
Parsable(files) ==
    IF files = << >> THEN << >>
    ELSE (IF SettingsOf(Head(files)).malformed THEN << >> ELSE <<Head(files)>>)
         \o Parsable(Tail(files))

\* the entries of the first Init after a scan of the given files
ScanOf(files) ==
    load_image_items(parsed_heap([a \in Addresses |-> Unallocated], 1, menu_file.items),
                     parsed_entries(<< >>, 1, menu_file.items), files).heap

\* C12: the scan of the first Init leaves the panels exactly as a scan of
\* the listing without the files whose settings fail to parse: the files
\* before and after a failing one are placed as if it were absent.
C12_ScanIsolatesFailures ==
    (inits = 1 /\ menu_file.readable /\ init_result \in {"ok", "threw"}) =>
        heap = ScanOf(Parsable(image_files))

\* C15: a call of Try_Add_Editor_Item on a loaded editor returns false
\* exactly when the graphic's tag list lacks the master tag, and when it
\* returns true the graphic was added to the panel of some menu entry.
C15_FalseIffMasterTagMissing ==
    [][\A pixmap_path \in Pixmaps :
          (/\ init_result = "ok"
           /\ TryAdd(pixmap_path)
           /\ ~crashed'
           /\ ~last_result'.threw) =>
              /\ last_result'.ret = FALSE <=> m_editor_item_tag \notin TagsOf(pixmap_path)
              /\ last_result'.ret =>
                    \E a \in Addresses :
                        /\ heap[a].allocated
                        /\ Placements(a, pixmap_path)' > Placements(a, pixmap_path)]_vars

\* the positions of m_menu_entries whose entry carries the name
Carrying(name) ==
    {i \in DOMAIN m_menu_entries : heap[m_menu_entries[i]].m_name = name}

\* C16: a call of get_menu_entry that returns ends by the exception when no
\* entry carries the name, and otherwise returns the first entry of
\* m_menu_entries that carries it; it never returns NULL.
C16_LookupFirstOrError ==
    [][\A name \in LookupNames :
          (GetMenuEntry(name) /\ ~crashed') =>
              /\ Carrying(name) = {} => last_result'.threw
              /\ Carrying(name) # {} =>
                    /\ ~last_result'.threw
                    /\ \E i \in Carrying(name) :
                          /\ last_result'.entry = m_menu_entries[i]
                          /\ \A j \in Carrying(name) : i <= j
              /\ ~last_result'.threw => last_result'.entry \in Range(m_menu_entries)]_vars

\* the lookup of a name no entry carries has thrown on a populated menu
C16_Witness ==
    /\ init_result = "ok"
    /\ m_menu_entries # << >>
    /\ last_result.op = "get_menu_entry"
    /\ last_result.arg = "Water"
    /\ last_result.threw

=============================================================================
